---- MODULE Spec2Model ----
(***************************************************************************)
(* snow2gcp: unloading Snowflake tables/views to GCS.                      *)
(*                                                                         *)
(* Three programs share the same per-table workflow:                       *)
(*   "main_py"       src/main.py               (CLI batch runner)          *)
(*   "snow2gcp_py"   src/snow2gcp/snow2gcp.py  (CLI batch runner)          *)
(*   "streamlit_app" src/streamlit_app.py      (interactive form)          *)
(*                                                                         *)
(* A Python str is a sequence of characters; a character is written as a   *)
(* one-character TLA+ string, except the two code points "U+0130" (capital *)
(* I with dot above) and "U+0307" (combining dot above).  A literal piece  *)
(* of an f-string template that no operation looks inside is one element.  *)
(***************************************************************************)
EXTENDS Integers, Sequences, FiniteSets, TLC

VARIABLES
    variant,        \* which program runs
    tables,         \* the worklist: `tables` (CLI) / selected_views (form)
    pc,             \* position of the program
    run,            \* number of script runs started (the form reruns its script)
    runInfo,        \* what the current script run did about the connection
    connection,     \* conn / st.session_state.connection: 0 is None, n the n-th opened
    opened,         \* number of connections opened so far
    i,              \* index in the worklist of the table being processed
    k,              \* index in the plan of the next statement to execute
    plan,           \* step2 / statements: the unload plan of the current table
    sql,            \* every cursor.execute / read_sql_query of the current script run
    results,        \* outcome of each finished per-table workflow of the current run
    succeeded,      \* the CLI's `succeeded` counter
    failed_views,   \* the form's failed_views list
    failed_txt,     \* the lines of failed.txt
    failed_txt0,    \* the lines failed.txt held before the program started
    summary,        \* the counts reported at the end of a batch
    ui,             \* the form's export: checkbox, progress logger, load, reports
    race,           \* two invocations of the unload plan on one warehouse
    fn              \* input and output of a pure function under check

vars == <<variant, tables, pc, run, runInfo, connection, opened, i, k, plan, sql,
          results, succeeded, failed_views, failed_txt, failed_txt0, summary, ui, fn, race>>

batchVars == <<variant, tables, pc, run, runInfo, connection, opened, i, k, plan, sql,
               results, succeeded, failed_views, failed_txt, failed_txt0, summary, ui, race>>

-----------------------------------------------------------------------------
(* Bounds *)

MaxLen == 3         \* longest string handed to sanitize_path_component
MaxNameLen == 1     \* longest identifier handed to generate_unload_template
MaxTables == 2      \* longest worklist
MaxRuns == 3        \* script runs of one form session

-----------------------------------------------------------------------------
(* Strings *)

Range(s) == {s[j] : j \in 1..Len(s)}

SeqsUpTo(S, n) == UNION {[1..m -> S] : m \in 0..n}

Upper == <<"A", "B", "C", "D", "E", "F", "G", "H", "I", "J", "K", "L", "M",
           "N", "O", "P", "Q", "R", "S", "T", "U", "V", "W", "X", "Y", "Z">>

Lower == <<"a", "b", "c", "d", "e", "f", "g", "h", "i", "j", "k", "l", "m",
           "n", "o", "p", "q", "r", "s", "t", "u", "v", "w", "x", "y", "z">>

Digits == {"0", "1", "2", "3", "4", "5", "6", "7", "8", "9"}

\* The character class [a-z0-9_] of the sanitizer's pattern.
SafeChars == Range(Lower) \cup Digits \cup {"_"}

\* str.lower() on one character.  Unicode's full case mapping is one-to-one
\* except for U+0130, which lower-cases to the two characters "i" U+0307.
LowerChar(c) ==
    IF \E j \in 1..Len(Upper) : Upper[j] = c
    THEN <<Lower[CHOOSE j \in 1..Len(Upper) : Upper[j] = c]>>
    ELSE IF c = "U+0130" THEN <<"i", "U+0307">>
    ELSE <<c>>

\* str.lower()
RECURSIVE lower(_)
lower(s) == IF s = <<>> THEN <<>> ELSE LowerChar(Head(s)) \o lower(Tail(s))

\* re.sub(r'[^a-z0-9_]', '_', s): every match is one character, replaced by "_".
re_sub_unsafe(s) == [j \in 1..Len(s) |-> IF s[j] \in SafeChars THEN s[j] ELSE "_"]

\* Faulty variant: the pattern applied to the string as given, lower() forgotten.
sanitize_no_lower(component) == re_sub_unsafe(component)

\* Faulty variant: re.sub(..., count=1), only the first match replaced.
sanitize_first_only(component) ==
    LET s == lower(component)
        bad == {j \in 1..Len(s) : s[j] \notin SafeChars}
    IN  IF bad = {} THEN s
        ELSE LET f == CHOOSE j \in bad : \A m \in bad : j <= m
             IN  [j \in 1..Len(s) |-> IF j = f THEN "_" ELSE s[j]]

sanitize_path_component(component) == re_sub_unsafe(lower(component))

-----------------------------------------------------------------------------
(* The SQL generators.  A statement is a record: its kind and the values the *)
(* f-string interpolates into the statement's text, one field per place.     *)

generate_column_query(database, schema, table) ==
    [kind |-> "column_query", database |-> database, schema |-> schema, table |-> table]

\* Faulty variant: the cleanup statement drops the integration of the bare table name.
unload_template_drop_other(database, schema, table, base_gcs_path, step_1_res) ==
    LET db_path == sanitize_path_component(database)
        schema_path == sanitize_path_component(schema)
        table_path == sanitize_path_component(table)
        gcs_path == base_gcs_path \o <<"/">> \o table_path \o <<"/">>
        integration_name ==
            <<"gcs_integration_">> \o db_path \o <<"_">> \o schema_path
                \o <<"_">> \o table_path
    IN  << [kind |-> "use_role", role |-> "ACCOUNTADMIN"],
           [kind |-> "create_integration", name |-> integration_name,
            allowed_location |-> gcs_path],
           [kind |-> "copy_into", target |-> gcs_path, select |-> step_1_res,
            database |-> database, schema |-> schema, table |-> table,
            storage_integration |-> integration_name],
           [kind |-> "drop_integration",
            name |-> <<"gcs_integration_">> \o table_path] >>

generate_unload_template(database, schema, table, base_gcs_path, step_1_res) ==
    LET db_path == sanitize_path_component(database)
        schema_path == sanitize_path_component(schema)
        table_path == sanitize_path_component(table)
        gcs_path == base_gcs_path \o <<"/">> \o table_path \o <<"/">>
        integration_name ==
            <<"gcs_integration_">> \o db_path \o <<"_">> \o schema_path
                \o <<"_">> \o table_path
    IN  << [kind |-> "use_role", role |-> "ACCOUNTADMIN"],
           [kind |-> "create_integration", name |-> integration_name,
            allowed_location |-> gcs_path],
           [kind |-> "copy_into", target |-> gcs_path, select |-> step_1_res,
            database |-> database, schema |-> schema, table |-> table,
            storage_integration |-> integration_name],
           [kind |-> "drop_integration", name |-> integration_name] >>

\* str.split('\n'): the pieces between the newlines, in order.
RECURSIVE split_lines(_)
split_lines(s) ==
    IF \A j \in 1..Len(s) : s[j] # "\n" THEN <<s>>
    ELSE LET p == CHOOSE j \in 1..Len(s) :
                      s[j] = "\n" /\ \A m \in 1..(j - 1) : s[m] # "\n"
         IN  <<SubSeq(s, 1, p - 1)>> \o split_lines(SubSeq(s, p + 1, Len(s)))

\* ''.join(parts)
RECURSIVE join(_)
join(parts) == IF parts = <<>> THEN <<>> ELSE Head(parts) \o join(Tail(parts))

\* Faulty variant: ' '.join(...), the lines joined with a space.
RECURSIVE join_spaced(_)
join_spaced(parts) ==
    IF Len(parts) <= 1 THEN join(parts)
    ELSE Head(parts) \o <<" ">> \o join_spaced(Tail(parts))

collapse_clause_spaced(clause) == join_spaced(split_lines(clause))

\* step_1_res = ''.join(query_resp[0].split('\n'))
collapse_clause(clause) == join(split_lines(clause))

-----------------------------------------------------------------------------
(* The pure functions on their own: Init draws the arguments, the action    *)
(* applies the function.                                                     *)

SanitizeAlphabet == {"a", "Z", "7", "_", "-", "U+0130"}

NameAlphabet == {"v", "V", "_", "-"}

Names == SeqsUpTo(NameAlphabet, MaxNameLen)

BasePaths == {<<"gcs://", "b", "/", "s">>, <<"gcs://", "b", "/", "S", "-">>}

Clauses == {<<"a">>, <<"a", ",", "\n", "b">>}

\* No export of the form is running or was reported.
NoUi == [enable_bq_import |-> FALSE, current |-> 0, total |-> 0, bq |-> "none",
         loads |-> <<>>, reports |-> {}]

\* No second invocation is running beside the program.
NoRace == [mode |-> "none"]

Idle ==
    /\ ui = NoUi
    /\ race = NoRace
    /\ variant = "none" /\ tables = <<>> /\ pc = "none" /\ run = 0
    /\ runInfo = [connect |-> "none", before |-> 0]
    /\ connection = 0 /\ opened = 0 /\ i = 0 /\ k = 0 /\ plan = <<>>
    /\ sql = <<>> /\ results = <<>> /\ succeeded = 0 /\ failed_views = <<>>
    /\ failed_txt = <<>> /\ failed_txt0 = <<>> /\ summary = [reported |-> FALSE]

SanitizeInit ==
    /\ Idle
    /\ \E x \in SeqsUpTo(SanitizeAlphabet, MaxLen) : fn = [op |-> "input", x |-> x]

ApplySanitize ==
    /\ fn.op = "input"
    /\ fn' = [op |-> "sanitized", x |-> fn.x,
              out |-> sanitize_path_component(fn.x),
              again |-> sanitize_path_component(sanitize_path_component(fn.x))]
    /\ UNCHANGED batchVars

SanitizeNext == ApplySanitize

SpecSanitize == SanitizeInit /\ [][SanitizeNext]_vars

TemplateInit ==
    /\ Idle
    /\ \E d \in Names, s \in Names, t \in Names, b \in BasePaths, c \in Clauses :
          fn = [op |-> "template_input", database |-> d, schema |-> s, table |-> t,
                base_gcs_path |-> b, step_1_res |-> c]

ApplyTemplate ==
    /\ fn.op = "template_input"
    /\ fn' = [op |-> "template", database |-> fn.database, schema |-> fn.schema,
              table |-> fn.table, base_gcs_path |-> fn.base_gcs_path,
              step_1_res |-> fn.step_1_res,
              out |-> generate_unload_template(fn.database, fn.schema, fn.table,
                                               fn.base_gcs_path, fn.step_1_res)]
    /\ UNCHANGED batchVars

TemplateNext == ApplyTemplate

SpecTemplate == TemplateInit /\ [][TemplateNext]_vars

-----------------------------------------------------------------------------
(* Claims about the pure functions *)

CountOf(c, s) == Cardinality({j \in 1..Len(s) : s[j] = c})

\* C9 as stated: the output of sanitize_path_component has only characters of
\* [a-z0-9_] and exactly the length of its input.
C9_SameLength ==
    fn.op = "sanitized" =>
        /\ Range(fn.out) \subseteq SafeChars
        /\ Len(fn.out) = Len(fn.x)

\* C9 amended: the output has only characters of [a-z0-9_], one per character
\* of the lower-cased input: as long as the input, plus one for every U+0130
\* in the input.
C9_CharsetAndLength ==
    fn.op = "sanitized" =>
        /\ Range(fn.out) \subseteq SafeChars
        /\ Len(fn.out) = Len(fn.x) + CountOf("U+0130", fn.x)
        /\ Len(fn.out) = Len(lower(fn.x))

C9_Witness ==
    /\ fn.op = "sanitized"
    /\ "U+0130" \in Range(fn.x)
    /\ "Z" \in Range(fn.x)
    /\ "-" \in Range(fn.x)

\* C10: sanitize_path_component is idempotent: sanitizing its output gives
\* the output again.
C10_Idempotent == fn.op = "sanitized" => fn.again = fn.out

C10_Witness ==
    /\ fn.op = "sanitized"
    /\ fn.out # fn.x
    /\ Len(fn.x) >= 2
    /\ \E j \in 1..Len(fn.x) : fn.x[j] \notin SafeChars

\* C8: generate_unload_template returns exactly 4 statements in the order
\* role elevation, create integration, copy-out, drop; the integration created
\* is the one the copy-out goes through and the one dropped, and the location
\* the integration allows is the copy-out's target.
C8_PlanShape ==
    fn.op = "template" =>
        /\ Len(fn.out) = 4
        /\ fn.out[1].kind = "use_role"
        /\ fn.out[2].kind = "create_integration"
        /\ fn.out[3].kind = "copy_into"
        /\ fn.out[4].kind = "drop_integration"
        /\ fn.out[3].storage_integration = fn.out[2].name
        /\ fn.out[4].name = fn.out[2].name
        /\ fn.out[3].target = fn.out[2].allowed_location

C8_Witness ==
    /\ fn.op = "template"
    /\ fn.database # <<>> /\ fn.schema # <<>> /\ fn.table # <<>>
    /\ sanitize_path_component(fn.table) # fn.table
    /\ Len(fn.out) = 4

-----------------------------------------------------------------------------
(* The batch runners and the form *)

CliVariants == {"main_py", "snow2gcp_py"}

Variants == CliVariants \cup {"streamlit_app"}

\* Two views of one schema (the form lists the views of the selected schema).
Refs == { [database |-> <<"D">>, schema |-> <<"S", "1">>, table |-> <<"V">>],
          [database |-> <<"D">>, schema |-> <<"S", "1">>, table |-> <<"v", "-">>] }

\* GCS_BUCKET / the form's bucket field
GcsBucket == <<"b", "k", "t">>

\* Messages of the errors the warehouse raises from cursor.execute.
DbErrors == {"E1", "E2"}

\* What fetchall() returns for the column query: a list of rows, a row a tuple.
MetaClause == <<"a", ",", "\n", "b">>

MetaResults == { <<>>,                                 \* no row
                 << <<MetaClause>> >>,                 \* one row, one column
                 << <<MetaClause>>, <<MetaClause>> >>, \* two rows
                 << <<MetaClause, MetaClause>> >> }    \* one row, two columns

IndexErrorMsg == "list index out of range"

AssertMsg == "Expected a single row with the SELECT_CLAUSE"

NoSummary == [reported |-> FALSE]

\* failed.txt as an earlier run left it: one entry.
PriorFailures == << <<"D", ".", "S", ".", "O">>, <<"Error: ", "E0">> >>

IsDistinct(s) == \A a, b \in 1..Len(s) : s[a] = s[b] => a = b

\* The lists `tables` can be: any list for the CLI, where it is written in the
\* source; for the form a non-empty multiselect of distinct views.
Worklists(v) ==
    IF v \in CliVariants THEN SeqsUpTo(Refs, MaxTables)
    ELSE {w \in SeqsUpTo(Refs, MaxTables) : w # <<>> /\ IsDistinct(w)}

\* base_gcs_path as each caller builds it: the CLI from the schema as given,
\* the form from the sanitized schema.
base_gcs_path(v, gcs_bucket, schema) ==
    IF v \in CliVariants
    THEN <<"gcs://">> \o gcs_bucket \o <<"/">> \o schema
    ELSE <<"gcs://">> \o gcs_bucket \o <<"/">> \o sanitize_path_component(schema)

base_gcs_path_of(v, ref) == base_gcs_path(v, GcsBucket, ref.schema)

\* dataset_id of export_to_bigquery
bq_dataset_id(database, schema) ==
    sanitize_path_component(database) \o <<"_">> \o sanitize_path_component(schema)

\* Faulty variant: the load reads the folder of the view name as selected.
bq_load_job_raw_view(gcs_bucket, database, schema, view) ==
    [table_id |-> bq_dataset_id(database, schema) \o <<".">>
                      \o sanitize_path_component(view),
     source_format |-> "PARQUET",
     write_disposition |-> "WRITE_TRUNCATE",
     gcs_path |-> <<"gs://">> \o gcs_bucket \o <<"/">> \o sanitize_path_component(schema)
                      \o <<"/">> \o view \o <<"/", "*.parquet">>]

\* client.load_table_from_uri(gcs_path, table_id, job_config) for one view
bq_load_job(gcs_bucket, database, schema, view) ==
    [table_id |-> bq_dataset_id(database, schema) \o <<".">>
                      \o sanitize_path_component(view),
     source_format |-> "PARQUET",
     write_disposition |-> "WRITE_TRUNCATE",
     gcs_path |-> <<"gs://">> \o gcs_bucket \o <<"/">> \o sanitize_path_component(schema)
                      \o <<"/">> \o sanitize_path_component(view)
                      \o <<"/", "*.parquet">>]

\* export_to_bigquery with the call that raises chosen by fail_at: 0 the
\* import of the client library, 1 bigquery.Client(), 2 create_dataset,
\* 2 + j the load of view j, Len(views) + 3 none.  The result, the number of
\* logger.update calls made, and the load jobs that completed.
export_to_bigquery(gcs_bucket, database, schema, views, fail_at) ==
    LET n == Len(views)
        loaded == IF fail_at <= 2 THEN 0 ELSE fail_at - 3
    IN  [success |-> fail_at = n + 3,
         updates |-> IF fail_at < n + 2 THEN fail_at ELSE n + 2,
         loads |-> [j \in 1..loaded |-> bq_load_job(gcs_bucket, database, schema, views[j])]]

\* total_steps of the form's export
total_steps(n, enable_bq_import) ==
    n * 4 + (IF enable_bq_import THEN n + 1 ELSE 0)

\* The st.success / st.error boxes shown after the export.
form_reports(successful_views, failed, enable_bq_import) ==
    (IF successful_views # <<>>
     THEN {"exported"} \cup (IF enable_bq_import /\ failed = <<>> THEN {"imported"} ELSE {})
     ELSE {})
    \cup (IF failed # <<>> THEN {"export_failed"} ELSE {})

\* Faulty variant: each table's workflow runs on a connection of its own.
Executed_own_connection(item, stmt, err, rows) ==
    [item |-> item, stmt |-> stmt, conn |-> connection + item, err |-> err, rows |-> rows]

\* One execution on a cursor of the connection, as recorded in `sql`.
Executed(item, stmt, err, rows) ==
    [item |-> item, stmt |-> stmt, conn |-> connection, err |-> err, rows |-> rows]

\* Faulty variant: failed.txt opened with 'w', the file truncated on every failure.
write_failure_truncating(file, ref, e) ==
    << ref.database \o <<".">> \o ref.schema \o <<".">> \o ref.table,
       <<"Error: ", e>> >>

\* with open('failed.txt', 'a+') as f: the two lines written at the end
append_failure(file, ref, e) ==
    file \o << ref.database \o <<".">> \o ref.schema \o <<".">> \o ref.table,
               <<"Error: ", e>> >>

\* Faulty variant: the counter is reported as the number of failures.
batch_summary_swapped(worklist, ok) ==
    [reported |-> TRUE, attempted |-> Len(worklist),
     succeeded |-> Len(worklist) - ok, failed |-> ok]

\* "Completed processing {len(tables)} tables, succeeded: ..., failed: ..."
batch_summary(worklist, ok) ==
    [reported |-> TRUE, attempted |-> Len(worklist),
     succeeded |-> ok, failed |-> Len(worklist) - ok]

\* successful_views and the counts of the form's final report
form_summary(selected_views, failed) ==
    LET failed_names == {failed[j][1] : j \in 1..Len(failed)}
        successful_views == SelectSeq(selected_views, LAMBDA v : v \notin failed_names)
    IN  [reported |-> TRUE, attempted |-> Len(selected_views),
         succeeded |-> Len(successful_views), failed |-> Len(failed),
         successful_views |-> successful_views,
         failed_views |-> [j \in 1..Len(failed) |-> failed[j][1]]]

Init ==
    /\ variant \in Variants
    /\ tables \in Worklists(variant)
    /\ pc = IF variant \in CliVariants THEN "start" ELSE "idle"
    /\ run = 0
    /\ runInfo = [connect |-> "none", before |-> 0]
    /\ connection = 0 /\ opened = 0 /\ i = 0 /\ k = 0 /\ plan = <<>>
    /\ sql = <<>> /\ results = <<>> /\ succeeded = 0 /\ failed_views = <<>>
    /\ failed_txt0 = PriorFailures
    /\ failed_txt = failed_txt0
    /\ summary = NoSummary
    /\ ui = NoUi
    /\ race = NoRace
    /\ fn = [op |-> "none"]

-----------------------------------------------------------------------------
(* The per-table workflow: generate_complete_workflow / export_view_to_gcs *)

\* query_resp = cursor.execute(...).fetchall()[0], the assert of the CLI, and
\* the clause taken from the row's first column.
select_clause_of(v, rows) ==
    IF rows = <<>> THEN [ok |-> FALSE, error |-> IndexErrorMsg]
    ELSE LET query_resp == rows[1]
         IN  IF v \in CliVariants /\ Len(query_resp) # 1
             THEN [ok |-> FALSE, error |-> AssertMsg]
             ELSE [ok |-> TRUE, step_1_res |-> collapse_clause(query_resp[1])]

\* Faulty variant: every statement wrapped in its own try/except, the loop goes on
\* after a statement that raised.
after_statement_swallow(v, n, len, raised) ==
    IF v = "main_py" /\ ~raised THEN "return"
    ELSE IF n = len THEN "return"
    ELSE "next"

\* Where the statement loop goes after statement n of len: an exception leaves
\* the workflow; main.py returns the first statement's rows from inside the
\* loop; the others return when the plan is exhausted.
after_statement(v, n, len, raised) ==
    IF raised THEN "raise"
    ELSE IF v = "main_py" THEN "return"
    ELSE IF n = len THEN "return"
    ELSE "next"

\* Faulty variant: the handler ends the batch (break) instead of going on.
next_item_break(idx, len, ok) == IF ok THEN idx + 1 ELSE len + 1

\* The batch loop's next index: `continue` after a failure, the next
\* iteration after a success.
next_item(idx, len, ok) == idx + 1

\* logger.update called n times by the form's workflow; the CLI has no logger.
logger_update(n) ==
    IF variant = "streamlit_app" THEN [ui EXCEPT !.current = @ + n] ELSE ui

\* The end of one table's workflow and what the batch loop does with it.
Finish(ok, e, newSql) ==
    /\ sql' = newSql
    /\ results' = Append(results, [item |-> i, ref |-> tables[i], ok |-> ok, error |-> e])
    /\ i' = next_item(i, Len(tables), ok)
    /\ pc' = "loop"
    /\ k' = 0
    /\ plan' = <<>>
    /\ IF variant \in CliVariants
       THEN /\ succeeded' = IF ok THEN succeeded + 1 ELSE succeeded
            /\ failed_txt' = IF ok THEN failed_txt
                             ELSE append_failure(failed_txt, tables[i], e)
            /\ UNCHANGED failed_views
       ELSE /\ failed_views' = IF ok THEN failed_views
                               ELSE Append(failed_views, <<tables[i].table, e>>)
            /\ UNCHANGED <<succeeded, failed_txt>>
    /\ UNCHANGED <<variant, tables, run, runInfo, connection, opened, failed_txt0,
                   summary, fn, race>>

\* The column query is executed and the plan built.
BeginWorkflow ==
    /\ pc = "loop"
    /\ i <= Len(tables)
    /\ LET ref == tables[i]
           step1 == generate_column_query(ref.database, ref.schema, ref.table)
       IN  \/ \E e \in DbErrors :
                 /\ Finish(FALSE, e, Append(sql, Executed(i, step1, e, <<>>)))
                 /\ ui' = logger_update(2)
           \/ \E rows \in MetaResults :
                 LET got == select_clause_of(variant, rows)
                     newSql == Append(sql, Executed(i, step1, "", rows))
                 IN  IF ~got.ok
                     THEN Finish(FALSE, got.error, newSql) /\ ui' = logger_update(2)
                     ELSE /\ ui' = logger_update(3)
                          /\ plan' = generate_unload_template(
                                         ref.database, ref.schema, ref.table,
                                         base_gcs_path_of(variant, ref), got.step_1_res)
                          /\ k' = 1
                          /\ pc' = "exec"
                          /\ sql' = newSql
                          /\ UNCHANGED <<variant, tables, run, runInfo, connection,
                                         opened, i, results, succeeded, failed_views,
                                         failed_txt, failed_txt0, summary, fn, race>>

\* One statement of the plan is executed on the cursor.
ExecStatement ==
    /\ pc = "exec"
    /\ k <= Len(plan)
    /\ ui' = logger_update(1)
    /\ \E e \in DbErrors \cup {""} :
          LET newSql == Append(sql, Executed(i, plan[k], e, <<>>))
              then == after_statement(variant, k, Len(plan), e # "")
          IN  CASE then = "raise" -> Finish(FALSE, e, newSql)
                [] then = "return" -> Finish(TRUE, "", newSql)
                [] OTHER ->
                     /\ k' = k + 1
                     /\ sql' = newSql
                     /\ UNCHANGED <<variant, tables, pc, run, runInfo, connection,
                                    opened, i, plan, results, succeeded, failed_views,
                                    failed_txt, failed_txt0, summary, fn, race>>

\* The loop is over: the counts are reported.
Summary ==
    /\ pc = "loop"
    /\ i > Len(tables)
    /\ ui.bq # "pending"
    /\ summary' = IF variant \in CliVariants THEN batch_summary(tables, succeeded)
                  ELSE form_summary([j \in 1..Len(tables) |-> tables[j].table],
                                    failed_views)
    /\ ui' = IF variant \in CliVariants THEN ui
             ELSE [ui EXCEPT !.reports = form_reports(summary'.successful_views,
                                                      failed_views, ui.enable_bq_import)]
    /\ pc' = IF variant \in CliVariants THEN "done" ELSE "idle"
    /\ UNCHANGED <<variant, tables, run, runInfo, connection, opened, i, k, plan, sql,
                   results, succeeded, failed_views, failed_txt, failed_txt0, fn, race>>

\* The form after its export loop: the BigQuery import, when it is enabled and
\* no view failed.
ImportToBigQuery ==
    /\ variant = "streamlit_app"
    /\ pc = "loop"
    /\ i > Len(tables)
    /\ ui.bq = "pending"
    /\ IF ~ui.enable_bq_import THEN ui' = [ui EXCEPT !.bq = "disabled"]
       ELSE IF failed_views # <<>> THEN ui' = [ui EXCEPT !.bq = "skipped"]
       ELSE \E fail_at \in 0..(Len(tables) + 3) :
               LET r == export_to_bigquery(GcsBucket, tables[1].database,
                            tables[1].schema,
                            [j \in 1..Len(tables) |-> tables[j].table], fail_at)
               IN  ui' = [ui EXCEPT !.bq = IF r.success THEN "ok" ELSE "failed",
                                    !.current = @ + r.updates,
                                    !.loads = r.loads]
    /\ UNCHANGED <<variant, tables, pc, run, runInfo, connection, opened, i, k, plan,
                   sql, results, succeeded, failed_views, failed_txt, failed_txt0,
                   summary, fn, race>>

-----------------------------------------------------------------------------
(* Connecting, and the form's script runs *)

\* Faulty variant: the CLI goes on to the batch loop without a connection.
connect_failed_pc_swallowed(v) == IF v \in CliVariants THEN "loop" ELSE "idle"

\* After create_snowflake_connection raised: the CLI's main ends with the
\* exception; connect_to_snowflake reports it and the script goes on.
connect_failed_pc(v) == IF v \in CliVariants THEN "crashed" ELSE "idle"

\* main() of the CLI up to the batch loop.  The credentials and, in main.py,
\* the bucket are configuration (USER, PASSWORD, ..., gcs_bucket) taken as set.
CliConnect ==
    /\ variant \in CliVariants
    /\ pc = "start"
    /\ run' = 1
    /\ \/ /\ connection' = opened + 1
          /\ opened' = opened + 1
          /\ runInfo' = [connect |-> "ok", before |-> connection]
          /\ pc' = "loop"
       \/ /\ runInfo' = [connect |-> "failed", before |-> connection]
          /\ pc' = connect_failed_pc(variant)
          /\ UNCHANGED <<connection, opened>>
    /\ i' = 1
    /\ succeeded' = 0
    /\ UNCHANGED <<variant, tables, k, plan, sql, results, failed_views, failed_txt,
                   failed_txt0, summary, ui, fn, race>>

\* A read-only query of the form, run on the session's connection: its
\* exception, if any, is caught and shown.
UiQuery(kind, conn, e) ==
    [item |-> 0, stmt |-> [kind |-> kind], conn |-> conn, err |-> e, rows |-> <<>>]

\* The form's script run after "Connect" was pressed with all fields filled.
FormConnect ==
    /\ variant = "streamlit_app"
    /\ pc = "idle"
    /\ run < MaxRuns
    /\ run' = run + 1
    /\ \/ \E e1, e2, e3 \in {"", "E1"} :
             /\ connection' = opened + 1
             /\ opened' = opened + 1
             /\ runInfo' = [connect |-> "ok", before |-> connection]
             /\ sql' = << UiQuery("show_warehouses", opened + 1, e1),
                          UiQuery("show_databases", opened + 1, e2),
                          UiQuery("debug_connection_info", opened + 1, e3) >>
       \/ \E e3 \in {"", "E1"} :
             /\ runInfo' = [connect |-> "failed", before |-> connection]
             /\ sql' = IF connection = 0 THEN <<>>
                       ELSE << UiQuery("debug_connection_info", connection, e3) >>
             /\ UNCHANGED <<connection, opened>>
    /\ pc' = connect_failed_pc(variant)
    /\ results' = <<>>
    /\ failed_views' = <<>>
    /\ summary' = NoSummary
    /\ ui' = NoUi
    /\ UNCHANGED <<variant, tables, i, k, plan, succeeded, failed_txt, failed_txt0, fn, race>>

\* The form's script run after "Start Export" was pressed.
FormStartExport ==
    /\ variant = "streamlit_app"
    /\ pc = "idle"
    /\ run < MaxRuns
    /\ connection # 0
    /\ tables # <<>> /\ GcsBucket # <<>>
    /\ run' = run + 1
    /\ runInfo' = [connect |-> "none", before |-> connection]
    /\ \E e3 \in {"", "E1"} :
          sql' = << UiQuery("debug_connection_info", connection, e3) >>
    /\ results' = <<>>
    /\ failed_views' = <<>>
    /\ summary' = NoSummary
    /\ \E enable_bq_import \in BOOLEAN :
          ui' = [enable_bq_import |-> enable_bq_import, current |-> 0,
                 total |-> total_steps(Len(tables), enable_bq_import),
                 bq |-> "pending", loads |-> <<>>, reports |-> {}]
    /\ i' = 1
    /\ pc' = "loop"
    /\ UNCHANGED <<variant, tables, connection, opened, k, plan, succeeded, failed_txt,
                   failed_txt0, fn, race>>

BatchStep == BeginWorkflow \/ ExecStatement \/ ImportToBigQuery \/ Summary

Next == CliConnect \/ FormConnect \/ FormStartExport \/ BatchStep

Spec == Init /\ [][Next]_vars

\* Every step of a started batch is a call that returns or raises.
FairSpec == Spec /\ WF_vars(BatchStep)

-----------------------------------------------------------------------------
(* Claims about the workflow and the batch *)

\* The executions of the current run that belong to worklist item j: its
\* column query first, then the statements of its plan.
ColumnQueries == SelectSeq(sql, LAMBDA x : x.item > 0 /\ x.stmt.kind = "column_query")

PlanExecutions(j) ==
    SelectSeq(sql, LAMBDA x : x.item = j /\ x.stmt.kind # "column_query")

ColumnQueryOf(j) ==
    SelectSeq(sql, LAMBDA x : x.item = j /\ x.stmt.kind = "column_query")[1]

\* The plan generated for item j from the row its column query returned.
PlanOf(j) ==
    LET ref == tables[j]
        clause == collapse_clause(ColumnQueryOf(j).rows[1][1])
    IN  generate_unload_template(ref.database, ref.schema, ref.table,
                                 base_gcs_path_of(variant, ref), clause)

PlanKinds == <<"use_role", "create_integration", "copy_into", "drop_integration">>

\* C1: a table whose workflow finished without error had every statement of
\* its plan executed exactly once, in the generated order, on one cursor.
C1_WholePlanExecuted ==
    \A r \in 1..Len(results) :
        results[r].ok =>
            LET ex == PlanExecutions(results[r].item)
            IN  /\ [j \in 1..Len(ex) |-> ex[j].stmt] = PlanOf(results[r].item)
                /\ [j \in 1..Len(ex) |-> ex[j].stmt.kind] = PlanKinds
                /\ \A j \in 1..Len(ex) :
                      ex[j].err = "" /\ ex[j].conn = ColumnQueryOf(results[r].item).conn

\* C2: once a statement of a table's plan raised, nothing more is executed
\* for that table (no later statement, no retry, no undo) and the table's
\* failure reason is the message of that error.
C2_FirstErrorAborts ==
    \A p \in 1..Len(sql) :
        (sql[p].item > 0 /\ sql[p].err # "") =>
            /\ \A q \in (p + 1)..Len(sql) : sql[q].item # sql[p].item
            /\ \A q \in 1..(p - 1) :
                  sql[q].item = sql[p].item => sql[q].err = "" /\ sql[q].stmt # sql[p].stmt
            /\ \E r \in 1..Len(results) :
                  /\ results[r].item = sql[p].item
                  /\ ~results[r].ok
                  /\ results[r].error = sql[p].err

\* A copy-out failed after the integration was created, the drop was not
\* executed, and the next table has been processed.
C2_Witness ==
    \E p \in 1..Len(sql) :
        /\ sql[p].item = 1
        /\ sql[p].stmt.kind = "copy_into"
        /\ sql[p].err = "E2"
        /\ Len(results) >= 2

\* Every finished workflow is the next item of the worklist, and the column
\* queries of the run were issued for the items 1, 2, ... in order, once each.
AttemptedInOrder ==
    /\ \A r \in 1..Len(results) : results[r].item = r /\ results[r].ref = tables[r]
    /\ \A q \in 1..Len(ColumnQueries) : ColumnQueries[q].item = q
    /\ Len(ColumnQueries) = Len(results) + (IF pc = "exec" THEN 1 ELSE 0)
    /\ pc \in {"loop", "exec"} => i = Len(ColumnQueries) + (IF pc = "exec" THEN 0 ELSE 1)
    /\ summary.reported => Len(results) = Len(tables)

\* C3: in a batch every item of the worklist is attempted exactly once, in
\* worklist order, whatever the outcome of the items before it, and a batch
\* that has started reaches its summary.
C3_AllAttempted ==
    /\ []AttemptedInOrder
    /\ (pc \in {"loop", "exec"}) ~> summary.reported

\* The first item failed, the second was attempted, the summary was reached.
C3_Witness ==
    /\ summary.reported
    /\ Len(results) = 2
    /\ ~results[1].ok
    /\ results[1].error = AssertMsg
    /\ results[2].ok

NumOk == Cardinality({r \in 1..Len(results) : results[r].ok})

NumFailed == Cardinality({r \in 1..Len(results) : ~results[r].ok})

\* C4: the reported counts are attempted = N, succeeded = the number of
\* workflows that raised nothing, failed = N - succeeded = the number that
\* raised; the form's successful and failed views partition the selection.
C4_Counts ==
    summary.reported =>
        /\ summary.attempted = Len(tables)
        /\ summary.succeeded = NumOk
        /\ summary.failed = NumFailed
        /\ summary.failed = Len(tables) - summary.succeeded
        /\ variant = "streamlit_app" =>
              /\ Range(summary.successful_views) \cup Range(summary.failed_views)
                    = {tables[j].table : j \in 1..Len(tables)}
              /\ Range(summary.successful_views) \cap Range(summary.failed_views) = {}
              /\ Range(summary.successful_views)
                    = {results[r].ref.table : r \in {x \in 1..Len(results) : results[x].ok}}
              /\ Len(summary.successful_views) + Len(summary.failed_views) = Len(tables)

C4_Witness ==
    /\ summary.reported
    /\ Len(tables) = 2
    /\ summary.succeeded = 1
    /\ summary.failed = 1
    /\ ~results[2].ok

\* The entries failed.txt must hold for the failures among the first n results.
RECURSIVE FailureEntries(_)
FailureEntries(n) ==
    IF n = 0 THEN <<>>
    ELSE FailureEntries(n - 1) \o
         (IF results[n].ok THEN <<>>
          ELSE << results[n].ref.database \o <<".">> \o results[n].ref.schema
                      \o <<".">> \o results[n].ref.table,
                  <<"Error: ", results[n].error>> >>)

\* C5: failed.txt is what it held before the run followed by one entry per
\* failed table, in the order of the failures: the line database.schema.table
\* and the line "Error: <message>"; a success adds nothing.
C5_AppendOnly ==
    IF variant \in CliVariants
    THEN failed_txt = failed_txt0 \o FailureEntries(Len(results))
    ELSE failed_txt = failed_txt0

C5_Witness ==
    /\ failed_txt0 # <<>>
    /\ Len(results) = 2
    /\ ~results[1].ok /\ ~results[2].ok
    /\ results[1].error # results[2].error
    /\ Len(failed_txt) = Len(failed_txt0) + 4

\* C6: a column query whose result is not exactly one row of exactly one
\* column fails the table's workflow, and no statement of a plan is executed
\* for that table.
C6_ShapeChecked ==
    \A q \in 1..Len(ColumnQueries) :
        LET x == ColumnQueries[q]
        IN  (x.err = "" /\ ~(Len(x.rows) = 1 /\ Len(x.rows[1]) = 1)) =>
                /\ PlanExecutions(x.item) = <<>>
                /\ ~(pc = "exec" /\ i = x.item)
                /\ \A r \in 1..Len(results) :
                      results[r].item = x.item => ~results[r].ok

\* C7 as stated: after a failed connect no workflow is started, no SQL is
\* executed, no failure is recorded, and there is no connection.
C7_NothingAfterFailedConnect ==
    runInfo.connect = "failed" =>
        /\ pc \notin {"loop", "exec"}
        /\ results = <<>>
        /\ failed_views = <<>>
        /\ failed_txt = failed_txt0
        /\ sql = <<>>
        /\ connection = 0

\* C7 amended: after a failed connect no workflow is started, no failure is
\* recorded and the connection is the one held before; with none held before
\* (always so in the CLI) no SQL is executed; a form session that held one
\* executes only the form's own queries, on that earlier connection.
C7_FailedConnectKeepsSession ==
    runInfo.connect = "failed" =>
        /\ pc \notin {"loop", "exec"}
        /\ results = <<>>
        /\ failed_views = <<>>
        /\ failed_txt = failed_txt0
        /\ connection = runInfo.before
        /\ (variant \in CliVariants \/ runInfo.before = 0) => sql = <<>> /\ connection = 0
        /\ \A p \in 1..Len(sql) : sql[p].item = 0 /\ sql[p].conn = runInfo.before

C7_Witness ==
    /\ runInfo.connect = "failed"
    /\ connection = 0
    /\ run >= 1

-----------------------------------------------------------------------------
(* Storage paths: the unload target of each program, the form's bucket field *)
(* and the BigQuery load of export_to_bigquery.                              *)

MaxBucketLen == 2   \* longest bucket name typed into the form

\* str.lstrip(chars): leading characters that are in the set chars removed.
RECURSIVE lstrip(_, _)
lstrip(s, chars) ==
    IF s # <<>> /\ Head(s) \in chars THEN lstrip(Tail(s), chars) ELSE s

\* str.rstrip(chars): trailing characters that are in the set chars removed.
RECURSIVE rstrip(_, _)
rstrip(s, chars) ==
    IF s # <<>> /\ s[Len(s)] \in chars THEN rstrip(SubSeq(s, 1, Len(s) - 1), chars)
    ELSE s

\* gcs_bucket = st.text_input(...).lstrip('gs://').rstrip('/')
normalize_bucket(text) == rstrip(lstrip(text, {"g", "s", ":", "/"}), {"/"})

\* The target of the copy-out statement of the plan program v builds.
unload_target(v, gcs_bucket, database, schema, table) ==
    generate_unload_template(database, schema, table,
                             base_gcs_path(v, gcs_bucket, schema), <<"*">>)[3].target

BucketAlphabet == {"s", "b", "-"}

\* Bucket names: non-empty, without "/".
BucketNames == SeqsUpTo(BucketAlphabet, MaxBucketLen) \ {<<>>}

PathDatabases == {<<"D">>, <<"d", "-">>}

\* Schema and view names: the form offers the names the warehouse lists.
PathNames == Names \ {<<>>}

PathsInit ==
    /\ Idle
    /\ \E b \in BucketNames, d \in PathDatabases, s \in PathNames, t \in PathNames :
          \E text \in {b, <<"g", "s", ":", "/", "/">> \o b \o <<"/">>} :
             fn = [op |-> "paths_input", bucket_name |-> b, bucket_text |-> text,
                   database |-> d, schema |-> s, table |-> t]

ApplyPaths ==
    /\ fn.op = "paths_input"
    /\ LET gcs_bucket == normalize_bucket(fn.bucket_text)
       IN  fn' = [op |-> "paths", bucket_name |-> fn.bucket_name,
                  bucket_text |-> fn.bucket_text, database |-> fn.database,
                  schema |-> fn.schema, table |-> fn.table,
                  gcs_bucket |-> gcs_bucket,
                  cli_target |-> unload_target("snow2gcp_py", gcs_bucket, fn.database,
                                               fn.schema, fn.table),
                  main_target |-> unload_target("main_py", gcs_bucket, fn.database,
                                                fn.schema, fn.table),
                  form_target |-> unload_target("streamlit_app", gcs_bucket,
                                                fn.database, fn.schema, fn.table),
                  load |-> bq_load_job(gcs_bucket, fn.database, fn.schema, fn.table)]
    /\ UNCHANGED batchVars

PathsNext == ApplyPaths

SpecPaths == PathsInit /\ [][PathsNext]_vars

\* scheme://bucket/schema-path/table-path/ of the sanitized schema and table
SanitizedTarget(bucket, schema, table) ==
    <<"gcs://">> \o bucket \o <<"/">> \o re_sub_unsafe(lower(schema)) \o <<"/">>
        \o re_sub_unsafe(lower(table)) \o <<"/">>

\* C11: the unload target is scheme://bucket/sanitize(schema)/sanitize(table)/
\* in the CLI batch runners and in the form, which so compute the same target.
C11_SameTarget ==
    fn.op = "paths" =>
        /\ fn.form_target = SanitizedTarget(fn.gcs_bucket, fn.schema, fn.table)
        /\ fn.cli_target = SanitizedTarget(fn.gcs_bucket, fn.schema, fn.table)
        /\ fn.main_target = SanitizedTarget(fn.gcs_bucket, fn.schema, fn.table)
        /\ fn.cli_target = fn.form_target

\* C12: the load of a view goes to the table sanitize(database)_sanitize(schema)
\* .sanitize(view), reads the Parquet files under the bucket, schema path and
\* view path of the view's unload target, and overwrites the table.
C12_LoadFromUnloadTarget ==
    fn.op = "paths" =>
        /\ fn.load.table_id = re_sub_unsafe(lower(fn.database)) \o <<"_">>
                                 \o re_sub_unsafe(lower(fn.schema)) \o <<".">>
                                 \o re_sub_unsafe(lower(fn.table))
        /\ Head(fn.form_target) = "gcs://"
        /\ Head(fn.load.gcs_path) = "gs://"
        /\ Tail(fn.load.gcs_path) = Tail(fn.form_target) \o <<"*.parquet">>
        /\ fn.load.source_format = "PARQUET"
        /\ fn.load.write_disposition = "WRITE_TRUNCATE"

C12_Witness ==
    /\ fn.op = "paths"
    /\ fn.schema = <<"V">>
    /\ fn.table = <<"-">>
    /\ fn.database = <<"d", "-">>
    /\ fn.gcs_bucket = <<"b">>

\* C19: a bucket name b without "/" typed as b or as gs://b/ is normalized to b.
C19_BucketKept == fn.op = "paths" => fn.gcs_bucket = fn.bucket_name

-----------------------------------------------------------------------------
(* Two tables side by side, and the select clause on its own *)

PairInit ==
    /\ Idle
    /\ \E d1 \in PathDatabases, s1 \in PathNames, t1 \in PathNames,
          d2 \in PathDatabases, s2 \in PathNames, t2 \in PathNames, b \in BasePaths :
          fn = [op |-> "pair_input", base_gcs_path |-> b,
                first |-> [database |-> d1, schema |-> s1, table |-> t1],
                second |-> [database |-> d2, schema |-> s2, table |-> t2]]

ApplyPair ==
    /\ fn.op = "pair_input"
    /\ fn' = [op |-> "pair", base_gcs_path |-> fn.base_gcs_path,
              first |-> fn.first, second |-> fn.second,
              plan1 |-> generate_unload_template(fn.first.database, fn.first.schema,
                            fn.first.table, fn.base_gcs_path, <<"*">>),
              plan2 |-> generate_unload_template(fn.second.database, fn.second.schema,
                            fn.second.table, fn.base_gcs_path, <<"*">>)]
    /\ UNCHANGED batchVars

PairNext == ApplyPair

SpecPair == PairInit /\ [][PairNext]_vars

\* C13: two distinct (database, schema, table) triples get distinct
\* integration names, and with one base path two distinct tables get distinct
\* target locations.
C13_UniquePerTable ==
    fn.op = "pair" =>
        /\ fn.first # fn.second => fn.plan1[2].name # fn.plan2[2].name
        /\ fn.first.table # fn.second.table => fn.plan1[3].target # fn.plan2[3].target

ClauseAlphabet == {"a", ",", " ", "\n"}

CollapseInit ==
    /\ Idle
    /\ \E x \in SeqsUpTo(ClauseAlphabet, MaxLen) : fn = [op |-> "clause_input", x |-> x]

ApplyCollapse ==
    /\ fn.op = "clause_input"
    /\ LET step_1_res == collapse_clause(fn.x)
       IN  fn' = [op |-> "clause", x |-> fn.x, step_1_res |-> step_1_res,
                  select |-> generate_unload_template(<<"D">>, <<"S">>, <<"V">>,
                                 <<"gcs://", "b", "/", "S">>, step_1_res)[3].select]
    /\ UNCHANGED batchVars

CollapseNext == ApplyCollapse

SpecCollapse == CollapseInit /\ [][CollapseNext]_vars

\* C16: the select clause of the copy-out statement is the column query's
\* result without its newline characters, every other character kept in order.
C16_NewlinesRemoved ==
    fn.op = "clause" =>
        /\ "\n" \notin Range(fn.select)
        /\ fn.select = SelectSeq(fn.x, LAMBDA c : c # "\n")
        /\ Len(fn.select) = Len(fn.x) - CountOf("\n", fn.x)

C16_Witness ==
    /\ fn.op = "clause"
    /\ fn.x = <<"a", "\n", "a">>
    /\ fn.select = <<"a", "a">>

-----------------------------------------------------------------------------
(* The connection of a batch *)

InBatch == pc \in {"loop", "exec"} \/ summary.reported

\* C15 as stated: the run of a batch opens exactly one connection itself,
\* before the first table is processed.
C15_OneOpenedInRun ==
    InBatch => runInfo.connect = "ok" /\ opened = 1

\* C15: a batch runs on one connection obtained before its first table, the
\* one the CLI opened at its start or the one the form's session holds since
\* an earlier script run; every execution of the batch is on that connection,
\* and no workflow opens or replaces a connection.
C15_OneConnectionPerBatch ==
    InBatch =>
        /\ connection # 0
        /\ connection = opened
        /\ \A j \in 1..Len(sql) : sql[j].conn = connection
        /\ variant \in CliVariants => opened = 1 /\ runInfo.connect = "ok"
        /\ variant = "streamlit_app" =>
              runInfo.connect = "none" /\ runInfo.before = connection

C15_Witness ==
    /\ variant = "streamlit_app"
    /\ opened = 2
    /\ summary.reported
    /\ Len(ColumnQueries) = 2
    /\ Len(PlanExecutions(2)) = 4

-----------------------------------------------------------------------------
(* The form's BigQuery import and progress logger *)

\* C17: the import is attempted only when it is enabled and no view failed,
\* "Successfully imported to BigQuery" is shown only after an import that was
\* attempted and returned success, and a failed import leaves the views
\* counted as exported as they were.
C17_ImportReportTruthful ==
    variant = "streamlit_app" =>
        /\ ui.bq \in {"ok", "failed"} => ui.enable_bq_import /\ failed_views = <<>>
        /\ "imported" \in ui.reports => ui.bq = "ok"
        /\ summary.reported /\ ui.bq = "failed" =>
              summary.successful_views = [j \in 1..Len(tables) |-> tables[j].table]

\* C18: the logger's step counter never exceeds the total it was created with.
C18_CurrentWithinTotal ==
    variant = "streamlit_app" => ui.current <= ui.total

-----------------------------------------------------------------------------
(* Two invocations of the per-table workflow against one warehouse *)

raceFrame == <<variant, tables, pc, run, runInfo, connection, opened, i, k, plan, sql,
               results, succeeded, failed_views, failed_txt, failed_txt0, summary, ui,
               fn>>

RaceRefs == Refs \cup { [database |-> <<"D">>, schema |-> <<"S", "1">>,
                         table |-> <<"v">>] }

\* Faulty variant: the integration is dropped before the copy-out.
unload_plan_drop_first(ref) ==
    LET p == generate_unload_template(ref.database, ref.schema, ref.table,
                                      base_gcs_path_of("snow2gcp_py", ref), <<"*">>)
    IN  <<p[1], p[2], p[4], p[3]>>

\* step2 of generate_complete_workflow for one table
unload_plan(ref) ==
    generate_unload_template(ref.database, ref.schema, ref.table,
                             base_gcs_path_of("snow2gcp_py", ref), <<"*">>)

\* Whether invocation r may execute its next statement: always when the two
\* run concurrently; one after the other in a sequential run.
may_execute(rc, r) ==
    rc.mode = "concurrent" \/ r = 1 \/ rc.at[1] > Len(rc.plans[1])

RaceInit ==
    /\ variant = "none" /\ tables = <<>> /\ pc = "none" /\ run = 0
    /\ runInfo = [connect |-> "none", before |-> 0]
    /\ connection = 0 /\ opened = 0 /\ i = 0 /\ k = 0 /\ plan = <<>>
    /\ sql = <<>> /\ results = <<>> /\ succeeded = 0 /\ failed_views = <<>>
    /\ failed_txt = <<>> /\ failed_txt0 = <<>> /\ summary = NoSummary
    /\ ui = NoUi
    /\ fn = [op |-> "none"]
    /\ \E mode \in {"sequential", "concurrent"}, r1 \in RaceRefs, r2 \in RaceRefs :
          race = [mode |-> mode,
                  plans |-> <<unload_plan(r1), unload_plan(r2)>>,
                  at |-> <<1, 1>>,
                  owner |-> [name \in {unload_plan(r1)[2].name, unload_plan(r2)[2].name}
                                |-> 0],
                  copies |-> <<>>]

\* Invocation r executes the next statement of its plan.  CREATE OR REPLACE
\* makes r the creator of the integration of that name, DROP ... IF EXISTS
\* removes it, COPY INTO uses the integration of that name as it is then, and
\* raises when there is none, which ends the workflow.
RaceStatement ==
    /\ race.mode # "none"
    /\ \E r \in 1..2 :
          /\ race.at[r] <= Len(race.plans[r])
          /\ may_execute(race, r)
          /\ LET stmt == race.plans[r][race.at[r]]
             IN  CASE stmt.kind = "create_integration" ->
                        race' = [race EXCEPT !.at[r] = @ + 1, !.owner[stmt.name] = r]
                   [] stmt.kind = "drop_integration" ->
                        race' = [race EXCEPT !.at[r] = @ + 1, !.owner[stmt.name] = 0]
                   [] stmt.kind = "copy_into" ->
                        race' = [race EXCEPT
                                   !.at[r] = IF race.owner[stmt.storage_integration] = 0
                                             THEN Len(race.plans[r]) + 1 ELSE @ + 1,
                                   !.copies = Append(@,
                                       [run |-> r,
                                        creator |-> race.owner[stmt.storage_integration]])]
                   [] OTHER -> race' = [race EXCEPT !.at[r] = @ + 1]
    /\ UNCHANGED raceFrame

RaceNext == RaceStatement

SpecRace == RaceInit /\ [][RaceNext]_vars

\* C14: a copy-out runs against an integration that another invocation
\* replaced or dropped only when two invocations whose tables share the
\* integration name run concurrently; one invocation after the other never
\* gets there.
C14_ClobberedOnlyWhenConcurrent ==
    race.mode # "none" =>
        \A j \in 1..Len(race.copies) :
            race.copies[j].creator # race.copies[j].run =>
                /\ race.mode = "concurrent"
                /\ race.plans[1][2].name = race.plans[2][2].name

\* Two concurrent invocations for the same table: one copy-out ran against
\* the integration the other had replaced, one found it dropped.
C14_Witness ==
    /\ race.mode = "concurrent"
    /\ race.plans[1] = race.plans[2]
    /\ \E j \in 1..Len(race.copies) : race.copies[j].creator = 0
    /\ \E j \in 1..Len(race.copies) :
          race.copies[j].creator \notin {0, race.copies[j].run}

====
